---------------------------- MODULE Spec2Model ----------------------------
(***************************************************************************)
(* A model of the fabrica code generator (pkg/codegen/generator.go):       *)
(* the metadata registry (RegisterResource, AddResourceVersion, ...) and   *)
(* the generation pipeline (GenerateAll and its stages).                   *)
(*                                                                         *)
(* Go strings on which the code computes (ToLower, Split, Contains) are    *)
(* sequences of one-character strings; strings the code only compares or   *)
(* copies are TLA+ strings.                                                *)
(***************************************************************************)
EXTENDS Integers, Sequences, FiniteSets, TLC

VARIABLES
    Resources,    \* Generator.Resources: the registry, a sequence of ResourceMetadata
    registered,   \* history: the type descriptors passed to RegisterResource, in call order
    lastCall,     \* history: the last registry call, its arguments and the error it returned
    ref,          \* the *ResourceMetadata the last GetResourceByName returned
    PackageName,  \* Generator.PackageName: the pipeline selector
    StorageType,  \* Generator.StorageType
    Config,       \* Generator.Config: the four feature flags, StorageType, DBDriver
    OutputDir,    \* Generator.OutputDir
    DBDriver,     \* Generator.DBDriver
    ModulePath,   \* Generator.ModulePath
    Templates,    \* Generator.Templates: the names of the loaded templates
    pc,           \* the function GenerateAll is in: "idle", a stage function, "done"
    idx,          \* the index of the resource a per-resource loop is at
    step,         \* the statement a stage function is at
    caller,       \* the caller of the stage function: "GenerateAll" or "GenerateHandlers"
    err,          \* what GenerateAll returns: NoError or an error
    run,          \* the number of GenerateAll calls so far
    fs,           \* the files: path -> content
    dirs,         \* the directories that exist
    trace         \* history of the run: stages entered, templates executed, failures

regVars == <<Resources, registered, lastCall, ref>>
cfgVars == <<PackageName, StorageType, Config, OutputDir, DBDriver, ModulePath>>
runVars == <<Templates, pc, idx, step, caller, err, run, fs, dirs, trace>>
vars == <<Resources, registered, lastCall, ref, PackageName, StorageType, Config, OutputDir,
          DBDriver, ModulePath,
          Templates, pc, idx, step, caller, err, run, fs, dirs, trace>>

----------------------------------------------------------------------------
(* Bounds of the model *)

\* the largest number of RegisterResource calls
MaxResources == 2

\* the largest number of GenerateAll runs over one output tree
MaxRuns == 2

----------------------------------------------------------------------------
(* Strings *)

UpperLetters ==
    <<"A","B","C","D","E","F","G","H","I","J","K","L","M",
      "N","O","P","Q","R","S","T","U","V","W","X","Y","Z">>

LowerLetters ==
    <<"a","b","c","d","e","f","g","h","i","j","k","l","m",
      "n","o","p","q","r","s","t","u","v","w","x","y","z">>

IsUpper(c) == \E k \in 1..Len(UpperLetters) : UpperLetters[k] = c

LowerChar(c) ==
    IF IsUpper(c)
    THEN LowerLetters[CHOOSE k \in 1..Len(UpperLetters) : UpperLetters[k] = c]
    ELSE c

\* strings.ToLower
ToLower(s) == [k \in 1..Len(s) |-> LowerChar(s[k])]

\* strings.Contains
Contains(s, sub) ==
    \E k \in 0..(Len(s) - Len(sub)) : SubSeq(s, k + 1, k + Len(sub)) = sub

RECURSIVE SplitFrom(_, _, _)
SplitFrom(s, sep, cur) ==
    IF s = <<>> THEN <<cur>>
    ELSE IF Head(s) = sep THEN <<cur>> \o SplitFrom(Tail(s), sep, <<>>)
    ELSE SplitFrom(Tail(s), sep, Append(cur, Head(s)))

\* strings.Split with a one-character separator: Split("", sep) is [""]
Split(s, sep) == SplitFrom(s, sep, <<>>)

\* reflect.StructField.IsExported: the name starts with an upper-case letter
IsExported(name) == name # <<>> /\ IsUpper(name[1])

Last(seq) == seq[Len(seq)]

sRequired == <<"r","e","q","u","i","r","e","d">>
sName == <<"n","a","m","e">>
sDescription == <<"d","e","s","c","r","i","p","t","i","o","n">>
sEmail == <<"e","m","a","i","l">>
sUrl == <<"u","r","l">>
sUri == <<"u","r","i">>
sIp == <<"i","p">>
sAddress == <<"a","d","d","r","e","s","s">>
sLocation == <<"l","o","c","a","t","i","o","n">>
sSpec == <<"S","p","e","c">>
sStatus == <<"S","t","a","t","u","s">>
sS == <<"s">>
sSlash == <<"/">>
sDot == <<".">>
sStar == <<"*">>


----------------------------------------------------------------------------
(* Type descriptors (reflect.Type) given to RegisterResource *)

sEmpty == <<>>
sDev == <<"D","e","v">>
sDEV == <<"D","E","V">>
sLoc == <<"L","o","c">>
sInt == <<"i","n","t">>
sString == <<"s","t","r","i","n","g">>
sBool == <<"b","o","o","l">>
sFloat64 == <<"f","l","o","a","t","6","4">>
sSliceString == <<"[","]","s","t","r","i","n","g">>
sMapStringString == <<"m","a","p","[","s","t","r","i","n","g","]","s","t","r","i","n","g">>
sEndpoint == <<"l","o","c",".","E","n","d","p","o","i","n","t">>

\* a reflect.Type of a field: its Kind, the Kind of its element (slices) and its String()
TString == [Kind |-> "string", Elem |-> "", String |-> sString]
TInt == [Kind |-> "int", Elem |-> "", String |-> sInt]
TBool == [Kind |-> "bool", Elem |-> "", String |-> sBool]
TFloat64 == [Kind |-> "float64", Elem |-> "", String |-> sFloat64]
TSliceString == [Kind |-> "slice", Elem |-> "string", String |-> sSliceString]
TMap == [Kind |-> "map", Elem |-> "string", String |-> sMapStringString]
TEndpoint == [Kind |-> "struct", Elem |-> "", String |-> sEndpoint]

\* a reflect.StructField of a sub-record: name, the json and validate tags, type
Field(name, json, validate, type) ==
    [Name |-> name, json |-> json, validate |-> validate, Type |-> type]

\* an immediate field of the resource type: a struct, or a pointer to one
StructOf(name, fields) == [Name |-> name, Ptr |-> FALSE, Fields |-> fields]
PtrOf(name, fields) == [Name |-> name, Ptr |-> TRUE, Fields |-> fields]

sResource == <<"R","e","s","o","u","r","c","e">>

\* device.Device with a hidden (json:"-") and an unexported spec field
tDevice ==
    [Name |-> sDev,
     PkgPath |-> <<"r","/","d","e","v">>,
     Fields |-> <<
        StructOf(sResource, <<>>),
        StructOf(sSpec, <<
            Field(<<"N","a","m","e">>, <<"n","a","m","e">>, sRequired, TString),
            Field(<<"S","e","c","r","e","t">>, <<"-">>, <<>>, TString),
            Field(<<"n","o","t","e">>, <<>>, <<>>, TInt) >>),
        StructOf(sStatus, <<
            Field(<<"C","o","u","n","t">>, <<"c","o","u","n","t">>, <<>>, TInt) >>) >>]

\* a type of the same name from another package, its Spec a pointer, no Status
tDeviceB ==
    [Name |-> sDev,
     PkgPath |-> <<"x","/","d","e","v">>,
     Fields |-> <<
        PtrOf(sSpec, <<
            Field(<<"I","P">>, <<>>, <<>>, TString) >>) >>]

\* location.Location with the other kinds of field
tLocation ==
    [Name |-> sLoc,
     PkgPath |-> <<"r","/","l","o","c">>,
     Fields |-> <<
        StructOf(sResource, <<>>),
        StructOf(sSpec, <<
            Field(<<"T","a","g","s">>, <<"t","a","g","s",",","o","m","i","t","e","m","p","t","y">>,
                  <<>>, TSliceString),
            Field(<<"R","a","t","i","o">>, <<",","o","m","i","t","e","m","p","t","y">>, <<>>, TFloat64),
            Field(<<"L","a","b","e","l","s">>, <<"l","a","b","e","l","s">>, <<>>, TMap),
            Field(<<"E","n","d">>, <<"e","n","d">>, sRequired, TEndpoint) >>),
        StructOf(sStatus, <<
            Field(<<"R","e","a","d","y">>, <<"r","e","a","d","y">>, <<>>, TBool) >>) >>]

\* a type whose name differs from Dev by case only
tDEV ==
    [Name |-> sDEV,
     PkgPath |-> <<"r","/","d","e","v">>,
     Fields |-> <<
        StructOf(sSpec, <<>>),
        StructOf(sStatus, <<>>) >>]

\* an unnamed struct type: reflect gives it the empty name and package path
tAnon ==
    [Name |-> sEmpty,
     PkgPath |-> sEmpty,
     Fields |-> <<
        StructOf(sSpec, <<
            Field(<<"U","R","L">>, <<>>, <<>>, TString) >>) >>]

\* the types RegisterResource is called with
ResourceTypes == {tDevice, tDeviceB, tLocation, tAnon}

----------------------------------------------------------------------------
(* Type Introspector *)

generateExampleValue(t, fieldName) ==
    LET lowerName == ToLower(fieldName) IN
    CASE t.Kind = "string" ->
            (CASE Contains(lowerName, sName) -> "example-name"
               [] ~Contains(lowerName, sName) /\ Contains(lowerName, sDescription) ->
                    "Example description"
               [] ~Contains(lowerName, sName) /\ ~Contains(lowerName, sDescription)
                    /\ Contains(lowerName, sEmail) -> "user@example.com"
               [] ~Contains(lowerName, sName) /\ ~Contains(lowerName, sDescription)
                    /\ ~Contains(lowerName, sEmail)
                    /\ (Contains(lowerName, sUrl) \/ Contains(lowerName, sUri)) ->
                    "https://example.com"
               [] ~Contains(lowerName, sName) /\ ~Contains(lowerName, sDescription)
                    /\ ~Contains(lowerName, sEmail)
                    /\ ~(Contains(lowerName, sUrl) \/ Contains(lowerName, sUri))
                    /\ (Contains(lowerName, sIp) \/ Contains(lowerName, sAddress)) ->
                    "192.168.1.1"
               [] ~Contains(lowerName, sName) /\ ~Contains(lowerName, sDescription)
                    /\ ~Contains(lowerName, sEmail)
                    /\ ~(Contains(lowerName, sUrl) \/ Contains(lowerName, sUri))
                    /\ ~(Contains(lowerName, sIp) \/ Contains(lowerName, sAddress))
                    /\ Contains(lowerName, sLocation) -> "DataCenter A"
               [] OTHER -> "example-value")
      [] t.Kind \in {"int", "int8", "int16", "int32", "int64"} -> "42"
      [] t.Kind \in {"uint", "uint8", "uint16", "uint32", "uint64"} -> "42"
      [] t.Kind \in {"float32", "float64"} -> "3.14"
      [] t.Kind = "bool" -> "true"
      [] t.Kind = "slice" -> IF t.Elem = "string" THEN "[\"item1\",\"item2\"]" ELSE "[]"
      [] t.Kind = "map" -> "{\"key\":\"value\"}"
      [] OTHER -> "{}"

\* the json name of a field: segment 0 of the tag unless it is empty or "-"
jsonNameOf(structField) ==
    LET jsonTag == structField.json
        parts == Split(jsonTag, ",")
    IN  IF jsonTag # <<>> /\ parts[1] # <<>> /\ parts[1] # <<"-">>
        THEN parts[1]
        ELSE structField.Name

\* the SpecField appended for one exported field
specFieldOf(structField) ==
    [Name |-> structField.Name,
     JSONName |-> jsonNameOf(structField),
     Type |-> structField.Type.String,
     Required |-> Contains(structField.validate, sRequired),
     ExampleValue |-> generateExampleValue(structField.Type, structField.Name)]

\* the fields of the sub-record the loop appends a SpecField for
keptFields(structFields) ==
    SelectSeq(structFields, LAMBDA f : IsExported(f.Name))

extractFields(resourceType, targetField) ==
    LET hits == {i \in 1..Len(resourceType.Fields) :
                    resourceType.Fields[i].Name = targetField}
    IN  IF hits = {} THEN <<>>
        ELSE LET i == CHOOSE h \in hits : \A g \in hits : h <= g
                 kept == keptFields(resourceType.Fields[i].Fields)
             IN  [k \in 1..Len(kept) |-> specFieldOf(kept[k])]


----------------------------------------------------------------------------
(* Template functions: specToJSON *)

\* the characters of the example values generateExampleValue returns
chars(value) ==
    CASE value = "example-name" ->
            <<"e", "x", "a", "m", "p", "l", "e", "-", "n", "a", "m", "e">>
      [] value = "Example description" ->
            <<"E", "x", "a", "m", "p", "l", "e", " ", "d", "e", "s", "c", "r", "i", "p", "t", "i", "o", "n">>
      [] value = "user@example.com" ->
            <<"u", "s", "e", "r", "@", "e", "x", "a", "m", "p", "l", "e", ".", "c", "o", "m">>
      [] value = "https://example.com" ->
            <<"h", "t", "t", "p", "s", ":", "/", "/", "e", "x", "a", "m", "p", "l", "e", ".", "c", "o", "m">>
      [] value = "192.168.1.1" ->
            <<"1", "9", "2", ".", "1", "6", "8", ".", "1", ".", "1">>
      [] value = "DataCenter A" ->
            <<"D", "a", "t", "a", "C", "e", "n", "t", "e", "r", " ", "A">>
      [] value = "example-value" ->
            <<"e", "x", "a", "m", "p", "l", "e", "-", "v", "a", "l", "u", "e">>
      [] value = "42" ->
            <<"4", "2">>
      [] value = "3.14" ->
            <<"3", ".", "1", "4">>
      [] value = "true" ->
            <<"t", "r", "u", "e">>
      [] value = "[\"item1\",\"item2\"]" ->
            <<"[", "\"", "i", "t", "e", "m", "1", "\"", ",", "\"", "i", "t", "e", "m", "2", "\"", "]">>
      [] value = "[]" ->
            <<"[", "]">>
      [] value = "{\"key\":\"value\"}" ->
            <<"{", "\"", "k", "e", "y", "\"", ":", "\"", "v", "a", "l", "u", "e", "\"", "}">>
      [] value = "{}" ->
            <<"{", "}">>

\* formatJSONValue on the type string and the characters of the example value
formatJSONValue(goType, value) ==
    IF Contains(goType, sInt) \/ Contains(goType, <<"f","l","o","a","t">>) \/ Contains(goType, sBool)
    THEN value
    ELSE IF Contains(goType, <<"[","]">>)
    THEN <<"[", "\"">> \o value \o <<"\"", "]">>
    ELSE IF Contains(goType, <<"m","a","p","[">>)
    THEN <<"{", "\"">> \o value \o <<"\"", ":", " ", "\"", "v", "a", "l", "u", "e", "\"", "}">>
    ELSE <<"\"">> \o value \o <<"\"">>

\* strings.Join
RECURSIVE stringsJoin(_, _)
stringsJoin(parts, sep) ==
    IF parts = <<>> THEN <<>>
    ELSE IF Len(parts) = 1 THEN parts[1]
    ELSE parts[1] \o sep \o stringsJoin(Tail(parts), sep)

\* the specToJSON template function on a field list
specToJSON(fields) ==
    IF Len(fields) = 0
    THEN <<"{", "\"", "n", "a", "m", "e", "\"", ":", " ", "\"", "e", "x", "a", "m", "p", "l", "e", "\"", "}">>
    ELSE LET parts == [k \in 1..Len(fields) |->
                          <<"\"">> \o fields[k].JSONName \o <<"\"", ":", " ">>
                             \o formatJSONValue(fields[k].Type, chars(fields[k].ExampleValue))]
         IN  <<"{">> \o stringsJoin(parts, <<",", " ">>) \o <<"}">>

----------------------------------------------------------------------------
(* Metadata Registry *)

\* an empty map[string]string
EmptyTags == [k \in {} |-> ""]

\* the version labels and the SchemaVersion values AddResourceVersion is called with
VersionLabels == {"v1", "v2"}

SchemaVersionArg(label, isDefault) ==
    [Version |-> label, IsDefault |-> isDefault, Stability |-> "beta",
     Deprecated |-> FALSE, SpecType |-> sEmpty, StatusType |-> sEmpty,
     TypeName |-> sEmpty, Package |-> sEmpty, Transforms |-> <<>>]

VersionArgs == {SchemaVersionArg(l, d) : l \in VersionLabels, d \in BOOLEAN}

\* the resource names the registry operations are called with
sNone == <<"N","o","n","e">>
NameArgs == {sDev, sLoc, sEmpty, sNone}

\* the package alias: the last segment of the package path
typePrefixOf(pkgPath) ==
    LET parts == Split(pkgPath, "/")
    IN  IF Len(parts) > 0 THEN Last(parts) ELSE <<"r","e","s","o","u","r","c","e","s">>

\* the ResourceMetadata RegisterResource builds for a type
metadataOf(t) ==
    LET name == t.Name
        pluralName == ToLower(name) \o sS
        specTypeName == name \o sSpec
        typePrefix == typePrefixOf(t.PkgPath)
        packageImport == t.PkgPath
        defaultVersion ==
            [Version |-> "v1", IsDefault |-> TRUE, Stability |-> "stable",
             Deprecated |-> FALSE,
             SpecType |-> typePrefix \o sDot \o specTypeName,
             StatusType |-> typePrefix \o sDot \o name \o sStatus,
             TypeName |-> sStar \o typePrefix \o sDot \o name,
             Package |-> packageImport, Transforms |-> <<>>]
    IN  [Name |-> name,
         PluralName |-> pluralName,
         Package |-> packageImport,
         PackageAlias |-> typePrefix,
         TypeName |-> sStar \o typePrefix \o sDot \o name,
         SpecType |-> typePrefix \o sDot \o specTypeName,
         StatusType |-> typePrefix \o sDot \o name \o sStatus,
         URLPath |-> sSlash \o pluralName,
         StorageName |-> name,
         Tags |-> EmptyTags,
         SpecFields |-> extractFields(t, sSpec),
         StatusFields |-> extractFields(t, sStatus),
         Versions |-> <<defaultVersion>>,
         DefaultVersion |-> "v1",
         APIGroupVersion |-> "v1"]

\* RegisterResource putting the new record in front
RegisterResource_Prepends(rs, t) == <<metadataOf(t)>> \o rs

\* RegisterResource on registry rs: the registry it leaves (it always returns nil)
RegisterResource(rs, t) == Append(rs, metadataOf(t))

\* the index of the first resource of that name, 0 when there is none
indexOfName(rs, resourceName) ==
    IF \E i \in 1..Len(rs) : rs[i].Name = resourceName
    THEN CHOOSE i \in 1..Len(rs) :
            /\ rs[i].Name = resourceName
            /\ \A j \in 1..(i - 1) : rs[j].Name # resourceName
    ELSE 0

\* AddResourceVersion appending before it looks for the label
AddResourceVersion_AppendsFirst(rs, resourceName, version) ==
    LET i == indexOfName(rs, resourceName) IN
    IF i = 0
    THEN [Resources |-> rs, err |-> "not found"]
    ELSE LET added == [rs EXCEPT ![i].Versions = Append(@, version)] IN
         IF \E k \in 1..Len(rs[i].Versions) : rs[i].Versions[k].Version = version.Version
         THEN [Resources |-> added, err |-> "already exists"]
         ELSE [Resources |->
                 [added EXCEPT ![i].DefaultVersion =
                                    IF version.IsDefault THEN version.Version ELSE @],
               err |-> "nil"]

\* AddResourceVersion moving the default pointer whatever the flag
AddResourceVersion_AlwaysDefault(rs, resourceName, version) ==
    LET i == indexOfName(rs, resourceName) IN
    IF i = 0
    THEN [Resources |-> rs, err |-> "not found"]
    ELSE IF \E k \in 1..Len(rs[i].Versions) : rs[i].Versions[k].Version = version.Version
    THEN [Resources |-> rs, err |-> "already exists"]
    ELSE [Resources |->
            [rs EXCEPT ![i].Versions = Append(@, version),
                       ![i].DefaultVersion = version.Version],
          err |-> "nil"]

\* AddResourceVersion without the loop over the existing versions
AddResourceVersion_NoLabelCheck(rs, resourceName, version) ==
    LET i == indexOfName(rs, resourceName) IN
    IF i = 0
    THEN [Resources |-> rs, err |-> "not found"]
    ELSE [Resources |->
            [rs EXCEPT ![i].Versions = Append(@, version),
                       ![i].DefaultVersion =
                            IF version.IsDefault THEN version.Version ELSE @],
          err |-> "nil"]

\* AddResourceVersion storing the version with its default flag cleared
AddResourceVersion_DropsFlag(rs, resourceName, version) ==
    LET i == indexOfName(rs, resourceName) IN
    IF i = 0
    THEN [Resources |-> rs, err |-> "not found"]
    ELSE IF \E k \in 1..Len(rs[i].Versions) : rs[i].Versions[k].Version = version.Version
    THEN [Resources |-> rs, err |-> "already exists"]
    ELSE [Resources |->
            [rs EXCEPT ![i].Versions = Append(@, [version EXCEPT !.IsDefault = FALSE]),
                       ![i].DefaultVersion =
                            IF version.IsDefault THEN version.Version ELSE @],
          err |-> "nil"]

\* AddResourceVersion on registry rs: the registry it leaves and the error it returns
AddResourceVersion(rs, resourceName, version) ==
    LET i == indexOfName(rs, resourceName) IN
    IF i = 0
    THEN [Resources |-> rs, err |-> "not found"]
    ELSE IF \E k \in 1..Len(rs[i].Versions) : rs[i].Versions[k].Version = version.Version
    THEN [Resources |-> rs, err |-> "already exists"]
    ELSE [Resources |->
            [rs EXCEPT ![i].Versions = Append(@, version),
                       ![i].DefaultVersion =
                            IF version.IsDefault THEN version.Version ELSE @],
          err |-> "nil"]

\* the tag keys and values SetResourceTag is called with, and the group
\* versions SetAPIGroupVersion is called with
TagKeys == {"owner", "tier"}
TagValues == {"a", "b"}
APIGroupVersions == {"v1", "v2"}

\* m[key] = value on a map
setKey(m, key, value) == [k \in DOMAIN m \cup {key} |-> IF k = key THEN value ELSE m[k]]

\* SetResourceTag taking the key out when the map has it
SetResourceTag_Toggles(rs, resourceName, key, value) ==
    LET i == indexOfName(rs, resourceName) IN
    IF i = 0 THEN rs
    ELSE IF key \in DOMAIN rs[i].Tags
    THEN [rs EXCEPT ![i].Tags = [k \in DOMAIN @ \ {key} |-> @[k]]]
    ELSE [rs EXCEPT ![i].Tags = setKey(@, key, value)]

\* SetResourceTag making a new map on every write
SetResourceTag_DropsOtherTags(rs, resourceName, key, value) ==
    LET i == indexOfName(rs, resourceName) IN
    IF i = 0 THEN rs
    ELSE [rs EXCEPT ![i].Tags = setKey(EmptyTags, key, value)]

\* SetResourceTag on registry rs: the registry it leaves (it returns nothing)
SetResourceTag(rs, resourceName, key, value) ==
    LET i == indexOfName(rs, resourceName) IN
    IF i = 0 THEN rs
    ELSE [rs EXCEPT ![i].Tags = setKey(@, key, value)]

\* SetAPIGroupVersion returning after the first resource
SetAPIGroupVersion_FirstOnly(rs, apiGroupVersion) ==
    [i \in 1..Len(rs) |->
        IF i = 1 THEN [rs[i] EXCEPT !.APIGroupVersion = apiGroupVersion] ELSE rs[i]]

\* SetAPIGroupVersion on registry rs: the registry it leaves
SetAPIGroupVersion(rs, apiGroupVersion) ==
    [i \in 1..Len(rs) |-> [rs[i] EXCEPT !.APIGroupVersion = apiGroupVersion]]

\* cap(g.Resources) when it holds len records: make(.., 0), then append one
\* record at a time, which doubles a full backing array
RECURSIVE capacityOf(_)
capacityOf(len) ==
    IF len = 0 THEN 0
    ELSE LET before == capacityOf(len - 1) IN
         IF len - 1 < before THEN before
         ELSE IF before = 0 THEN 1 ELSE 2 * before

\* append(g.Resources, metadata) has to move the records to a new backing array
reallocates(rs) == Len(rs) = capacityOf(Len(rs))

\* no reference taken
NoRef == [found |-> FALSE, name |-> sEmpty, i |-> 0, old |-> <<>>]

\* GetResourceByName on registry rs: &g.Resources[i] and true, or nil and false;
\* old is empty as long as the pointer is into the registry's backing array
GetResourceByName(rs, name) ==
    LET i == indexOfName(rs, name) IN
    IF i = 0 THEN [NoRef EXCEPT !.name = name]
    ELSE [found |-> TRUE, name |-> name, i |-> i, old |-> <<>>]

\* the pointer after append(g.Resources, metadata): when the records moved it
\* still points into the array they moved from, which holds the record as it was
afterAppend(r, rs) ==
    IF r.found /\ r.old = <<>> /\ reallocates(rs)
    THEN [r EXCEPT !.old = <<rs[r.i]>>]
    ELSE r

\* what is read through the pointer: the record in the array it points into;
\* Tags is a map, which the copy of a record shares with the record
deref(r, rs) ==
    IF r.old = <<>> THEN rs[r.i]
    ELSE [r.old[1] EXCEPT !.Tags = rs[r.i].Tags]

----------------------------------------------------------------------------
(* The generator before any call: NewGenerator *)

NoError == [kind |-> "nil", stage |-> ""]

NoCall == [op |-> "none", name |-> sEmpty, version |-> SchemaVersionArg("v1", FALSE),
           err |-> "nil"]

DefaultConfig ==
    [ValidationEnabled |-> TRUE, ConditionalEnabled |-> TRUE,
     VersioningEnabled |-> TRUE, EventsEnabled |-> FALSE,
     StorageType |-> "file", DBDriver |-> "sqlite"]

NewGenerator(outputDir, packageName, modulePath) ==
    /\ Resources = <<>>
    /\ registered = <<>>
    /\ lastCall = NoCall
    /\ ref = NoRef
    /\ PackageName = packageName
    /\ StorageType = "file"
    /\ Config = DefaultConfig
    /\ OutputDir = outputDir
    /\ DBDriver = "sqlite"
    /\ ModulePath = modulePath
    /\ Templates = {}
    /\ pc = "idle"
    /\ idx = 0
    /\ step = 0
    /\ caller = ""
    /\ err = NoError
    /\ run = 0
    /\ fs = <<>>
    /\ dirs = {}
    /\ trace = <<>>

----------------------------------------------------------------------------
(* The registry operations as calls on the generator *)

CallRegisterResource(t) ==
    /\ pc = "idle"
    /\ Len(registered) < MaxResources
    /\ Resources' = RegisterResource(Resources, t)
    /\ registered' = Append(registered, t)
    /\ lastCall' = [NoCall EXCEPT !.op = "RegisterResource", !.name = t.Name]
    /\ ref' = afterAppend(ref, Resources)
    /\ UNCHANGED <<cfgVars, runVars>>

CallAddResourceVersion(resourceName, version) ==
    /\ pc = "idle"
    /\ LET r == AddResourceVersion(Resources, resourceName, version) IN
        /\ Resources' = r.Resources
        /\ lastCall' = [op |-> "AddResourceVersion", name |-> resourceName,
                        version |-> version, err |-> r.err]
    /\ UNCHANGED <<registered, ref, cfgVars, runVars>>

CallSetResourceTag(resourceName, key, value) ==
    /\ pc = "idle"
    /\ Resources' = SetResourceTag(Resources, resourceName, key, value)
    /\ lastCall' = [NoCall EXCEPT !.op = "SetResourceTag"]
    /\ UNCHANGED <<registered, ref, cfgVars, runVars>>

CallSetAPIGroupVersion(apiGroupVersion) ==
    /\ pc = "idle"
    /\ Resources' = SetAPIGroupVersion(Resources, apiGroupVersion)
    /\ lastCall' = [NoCall EXCEPT !.op = "SetAPIGroupVersion"]
    /\ UNCHANGED <<registered, ref, cfgVars, runVars>>

CallGetResourceByName(name) ==
    /\ pc = "idle"
    /\ ref' = GetResourceByName(Resources, name)
    /\ lastCall' = [NoCall EXCEPT !.op = "GetResourceByName"]
    /\ UNCHANGED <<Resources, registered, cfgVars, runVars>>

\* the values the setters are called with
StorageTypes == {"file", "ent"}
DBDrivers == {"postgres", "mysql", "sqlite"}

CallSetStorageType(storageType) ==
    /\ pc = "idle"
    /\ StorageType' = storageType
    /\ lastCall' = [NoCall EXCEPT !.op = "SetStorageType"]
    /\ UNCHANGED <<Resources, registered, ref, PackageName, Config, OutputDir, DBDriver,
                   ModulePath, runVars>>

CallSetDBDriver(driver) ==
    /\ pc = "idle"
    /\ DBDriver' = driver
    /\ lastCall' = [NoCall EXCEPT !.op = "SetDBDriver"]
    /\ UNCHANGED <<Resources, registered, ref, PackageName, StorageType, Config, OutputDir,
                   ModulePath, runVars>>

Init == NewGenerator("out", "main", "example.com/app")

Next ==
    \/ \E t \in ResourceTypes : CallRegisterResource(t)
    \/ \E n \in NameArgs, v \in VersionArgs : CallAddResourceVersion(n, v)

\* the registry under any sequence of RegisterResource and AddResourceVersion calls
Spec == Init /\ [][Next]_vars

NextSetup ==
    \/ \E t \in ResourceTypes : CallRegisterResource(t)
    \/ \E st \in StorageTypes : CallSetStorageType(st)
    \/ \E d \in DBDrivers : CallSetDBDriver(d)

\* a generator being set up for a run: registrations and the two setters
SpecSetup == Init /\ [][NextSetup]_vars

\* the types and the arguments of the calls of the whole registry interface
RegistryTypes == {tDevice, tLocation}
RegistryNames == {sDev, sLoc}
RegistryVersions == {SchemaVersionArg("v2", TRUE), SchemaVersionArg("v1", FALSE)}

\* a call of one of the four operations that change the registry
Mutate(keys) ==
    \/ \E t \in RegistryTypes : CallRegisterResource(t)
    \/ \E n \in RegistryNames, v \in RegistryVersions : CallAddResourceVersion(n, v)
    \/ \E n \in RegistryNames, k \in keys, v \in TagValues : CallSetResourceTag(n, k, v)
    \/ \E v \in APIGroupVersions : CallSetAPIGroupVersion(v)

NextRegistry == Mutate(TagKeys)

\* the registry under any sequence of calls of the operations that change it
SpecRegistry == Init /\ [][NextRegistry]_vars

NextRef ==
    \/ Mutate({"owner"})
    \/ \E n \in RegistryNames : CallGetResourceByName(n)

\* a caller that keeps the pointer GetResourceByName returned while the
\* registry is changed
SpecRef == Init /\ [][NextRef]_vars


----------------------------------------------------------------------------
(* Properties of the registry *)

\* the indices of the resources of that name
indicesOfName(rs, resourceName) == {i \in 1..Len(rs) : rs[i].Name = resourceName}

\* the labels of a resource's versions
labelsOf(resource) == {resource.Versions[k].Version : k \in 1..Len(resource.Versions)}

\* the names, in declared order, of the exported fields of a sub-record that are
\* not tagged json:"-"; the empty list when the type has no such sub-record
visibleFieldNames(t, targetField) ==
    LET hits == {i \in 1..Len(t.Fields) : t.Fields[i].Name = targetField} IN
    IF hits = {} THEN <<>>
    ELSE LET sub == t.Fields[CHOOSE h \in hits : \A g \in hits : h <= g].Fields
             shown == SelectSeq(sub, LAMBDA f : IsExported(f.Name) /\ f.json # <<"-">>)
         IN  [k \in 1..Len(shown) |-> shown[k].Name]

fieldNames(fields) == [k \in 1..Len(fields) |-> fields[k].Name]

\* C1: each registered resource has at most one schema version whose IsDefault
\* flag is set.
C1_AtMostOneDefaultVersion ==
    \A i \in 1..Len(Resources) :
        Cardinality({k \in 1..Len(Resources[i].Versions) :
                        Resources[i].Versions[k].IsDefault}) <= 1

\* C2: after N RegisterResource calls the registry holds N records with N
\* pairwise distinct logical names.
C2_DistinctLogicalNames ==
    /\ Len(Resources) = Len(registered)
    /\ \A i, j \in 1..Len(Resources) :
          i # j => Resources[i].Name # Resources[j].Name

\* C3: SpecFields is exactly the sequence, in declared order, of the exported
\* fields of the Spec sub-record that are not tagged json:"-", and StatusFields
\* the same for the Status sub-record.
C3_FieldsAreTheVisibleFields ==
    \A i \in 1..Len(Resources) :
        /\ fieldNames(Resources[i].SpecFields) = visibleFieldNames(registered[i], sSpec)
        /\ fieldNames(Resources[i].StatusFields) = visibleFieldNames(registered[i], sStatus)

\* what one AddResourceVersion call must satisfy when it fails
failedAddLeavesRegistry(before, after, call) ==
    LET named == indicesOfName(before, call.name) IN
    /\ named = {} => call.err = "not found"
    /\ (named # {} /\ \A i \in named : call.version.Version \in labelsOf(before[i]))
          => call.err = "already exists"
    /\ call.err = "not found" => named = {}
    /\ call.err = "already exists" =>
          \E i \in named : call.version.Version \in labelsOf(before[i])
    /\ call.err # "nil" => after = before

\* C9: AddResourceVersion returns an error and leaves the whole registry
\* unchanged in both failure cases: a conflict error when the named resource
\* already has a version of that label, a not-found error when no resource has
\* the name.
C9_FailedAddLeavesRegistry ==
    [][lastCall'.op = "AddResourceVersion"
          => failedAddLeavesRegistry(Resources, Resources', lastCall')]_vars

\* a conflict on v1 right after registration
C9_Witness ==
    /\ lastCall.op = "AddResourceVersion"
    /\ lastCall.err = "already exists"
    /\ lastCall.version.Version = "v1"
    /\ \E i \in indicesOfName(Resources, lastCall.name) : Len(Resources[i].Versions) = 1

\* what one successful AddResourceVersion call must satisfy
successfulAddAppends(before, after, call) ==
    call.err = "nil" =>
        /\ Len(after) = Len(before)
        /\ \E i \in indicesOfName(before, call.name) :
              /\ after[i].Versions = Append(before[i].Versions, call.version)
              /\ after[i].DefaultVersion =
                    IF call.version.IsDefault THEN call.version.Version
                    ELSE before[i].DefaultVersion
              /\ \A j \in 1..Len(before) : j # i => after[j] = before[j]

\* C10: a successful AddResourceVersion(name, version) appends the version to the
\* end of that resource's Versions; DefaultVersion becomes version.Version if
\* version.IsDefault is set and is unchanged otherwise; every other resource is
\* unchanged.
C10_SuccessfulAddAppends ==
    [][lastCall'.op = "AddResourceVersion"
          => successfulAddAppends(Resources, Resources', lastCall')]_vars

\* a non-default version was added to the second of two resources
C10_Witness ==
    /\ lastCall.op = "AddResourceVersion"
    /\ lastCall.err = "nil"
    /\ ~lastCall.version.IsDefault
    /\ Len(Resources) = 2
    /\ Len(Resources[2].Versions) = 2
    /\ Resources[2].DefaultVersion = "v1"



\* C11: in every state reachable by any sequence of registry operations, the
\* version labels within each resource's Versions list are pairwise distinct.
C11_VersionLabelsDistinct ==
    \A i \in 1..Len(Resources) :
        \A a, b \in 1..Len(Resources[i].Versions) :
            a # b => Resources[i].Versions[a].Version # Resources[i].Versions[b].Version

\* a second v2 was refused for a resource that has v1 and v2
C11_Witness ==
    /\ lastCall.op = "AddResourceVersion"
    /\ lastCall.err = "already exists"
    /\ lastCall.version.Version = "v2"
    /\ \E i \in indicesOfName(Resources, lastCall.name) : labelsOf(Resources[i]) = {"v1", "v2"}

\* the record RegisterResource is to append for a type of that name
isFreshRecordOf(record, name) ==
    /\ record.Name = name
    /\ Len(record.Versions) = 1
    /\ record.Versions[1].Version = "v1"
    /\ record.Versions[1].IsDefault
    /\ record.Versions[1].Stability = "stable"
    /\ record.DefaultVersion = "v1"
    /\ record.PluralName = ToLower(name) \o <<"s">>
    /\ record.URLPath = <<"/">> \o record.PluralName

\* C12: RegisterResource of a record type always succeeds and appends exactly
\* one record at the end of Resources, so Resources is in registration order;
\* the new record has Versions = [v1, IsDefault, stable], DefaultVersion v1,
\* PluralName = lowercase(name)+"s" and URLPath = "/"+PluralName; all
\* previously registered records are unchanged.
C12_RegisterAppendsOne ==
    [][/\ lastCall'.op = "RegisterResource" =>
            /\ Len(Resources') = Len(Resources) + 1
            /\ \A i \in 1..Len(Resources) : Resources'[i] = Resources[i]
            /\ isFreshRecordOf(Resources'[Len(Resources')], Last(registered').Name)
       /\ Len(Resources') = Len(registered')
       /\ \A i \in 1..Len(Resources') : Resources'[i].Name = registered'[i].Name
    ]_vars

\* a second type was registered after the first resource was given a version
C12_Witness ==
    /\ lastCall.op = "RegisterResource"
    /\ Len(Resources) = 2
    /\ Len(Resources[1].Versions) = 2
    /\ Resources[1].Name # Resources[2].Name

\* C13: SetResourceTag is idempotent: from any registry state, applying
\* SetResourceTag(name, key, value) twice gives the same registry state as
\* applying it once.
C13_SetResourceTagIdempotent ==
    \A n \in NameArgs, k \in TagKeys, v \in TagValues :
        LET once == SetResourceTag(Resources, n, k, v)
        IN  SetResourceTag(once, n, k, v) = once

\* tags have been set: writing owner again overwrites a value
C13_Witness ==
    /\ lastCall.op = "SetResourceTag"
    /\ \E i \in 1..Len(Resources) :
          /\ DOMAIN Resources[i].Tags = TagKeys
          /\ Resources[i].Tags["owner"] = "b"

\* C14: SetResourceTag(name, key, value) changes nothing when no resource has
\* that name; when a resource has that name it changes only the entry key of
\* that resource's tag map and leaves every other tag, field and resource
\* unchanged.
C14_SetResourceTagFrame ==
    \A n \in NameArgs, k \in TagKeys, v \in TagValues :
        LET after == SetResourceTag(Resources, n, k, v)
            i == indexOfName(Resources, n)
        IN  IF indicesOfName(Resources, n) = {}
            THEN after = Resources
            ELSE /\ Len(after) = Len(Resources)
                 /\ \A j \in 1..Len(Resources) : j # i => after[j] = Resources[j]
                 /\ DOMAIN after[i].Tags = DOMAIN Resources[i].Tags \cup {k}
                 /\ after[i].Tags[k] = v
                 /\ \A other \in DOMAIN Resources[i].Tags \ {k} :
                        after[i].Tags[other] = Resources[i].Tags[other]
                 /\ [after[i] EXCEPT !.Tags = Resources[i].Tags] = Resources[i]

\* the first of two resources has both tags, the second has none
C14_Witness ==
    /\ lastCall.op = "SetResourceTag"
    /\ Len(Resources) = 2
    /\ DOMAIN Resources[1].Tags = TagKeys
    /\ Resources[2].Tags = EmptyTags
    /\ Len(Resources[1].Versions) = 2

\* C15: immediately after SetAPIGroupVersion(v), every registered resource has
\* APIGroupVersion = v, and no other field of any resource has changed.
C15_SetAPIGroupVersionUniform ==
    \A v \in APIGroupVersions :
        LET after == SetAPIGroupVersion(Resources, v)
        IN  /\ Len(after) = Len(Resources)
            /\ \A i \in 1..Len(Resources) :
                  /\ after[i].APIGroupVersion = v
                  /\ [after[i] EXCEPT !.APIGroupVersion = Resources[i].APIGroupVersion]
                        = Resources[i]

\* two resources, one of them tagged and with two versions, were set to v2
C15_Witness ==
    /\ lastCall.op = "SetAPIGroupVersion"
    /\ Len(Resources) = 2
    /\ \A i \in 1..2 : Resources[i].APIGroupVersion = "v2"
    /\ \E i \in 1..2 : Resources[i].Tags # EmptyTags /\ Len(Resources[i].Versions) = 2

\* C16: what is read through the reference GetResourceByName returned equals
\* the registry's current record for that name after any later sequence of
\* RegisterResource, SetResourceTag, AddResourceVersion and SetAPIGroupVersion
\* calls; for a name that is not registered the lookup returns not found.
C16_ReferenceIsStable ==
    /\ ref.found => deref(ref, Resources) = Resources[indexOfName(Resources, ref.name)]
    /\ lastCall.op = "GetResourceByName" =>
          (ref.found <=> indicesOfName(Resources, ref.name) # {})


sResources == <<"r","e","s","o","u","r","c","e","s">>

\* C23: RegisterResource sets PackageAlias to the last slash-separated segment
\* of the type's package path, and to resources when the package path is
\* empty; the qualified type names use the same alias as prefix.
C23_PackageAlias ==
    \A i \in 1..Len(Resources) :
        LET t == registered[i]
            alias == IF t.PkgPath = sEmpty THEN sResources ELSE Last(Split(t.PkgPath, "/"))
        IN  /\ Resources[i].PackageAlias = alias
            /\ Resources[i].TypeName = sStar \o alias \o sDot \o t.Name
            /\ Resources[i].SpecType = alias \o sDot \o t.Name \o sSpec
            /\ Resources[i].StatusType = alias \o sDot \o t.Name \o sStatus

\* C25: in every state reachable by any sequence of registry operations, each
\* resource's DefaultVersion is the label of a version present in its Versions
\* list, and that version has IsDefault set.
C25_DefaultVersionPresent ==
    \A i \in 1..Len(Resources) :
        \E k \in 1..Len(Resources[i].Versions) :
            /\ Resources[i].Versions[k].Version = Resources[i].DefaultVersion
            /\ Resources[i].Versions[k].IsDefault

\* a default version was added to a resource: the pointer moved to it
C25_Witness ==
    /\ lastCall.op = "AddResourceVersion"
    /\ lastCall.err = "nil"
    /\ lastCall.version.IsDefault
    /\ \E i \in 1..Len(Resources) :
          /\ Resources[i].Name = lastCall.name
          /\ Len(Resources[i].Versions) = 2
          /\ Resources[i].DefaultVersion = "v2"

\* C26: in every state reachable by any interleaving of RegisterResource and
\* SetAPIGroupVersion calls, all registered resources have the same
\* APIGroupVersion (a resource registered after a SetAPIGroupVersion call has
\* the value of that call too).
C26_APIGroupVersionUniform ==
    \A i, j \in 1..Len(Resources) :
        Resources[i].APIGroupVersion = Resources[j].APIGroupVersion

\* C28: in every state reachable from NewGenerator by any sequence of
\* SetStorageType and SetDBDriver calls, Generator.StorageType equals
\* Config.StorageType and Generator.DBDriver equals Config.DBDriver.
C28_StorageAgreesWithConfig ==
    /\ StorageType = Config.StorageType
    /\ DBDriver = Config.DBDriver

\* JSON texts (RFC 8259), read from position i of a character sequence; a
\* reader gives the position after what it read, 0 when the text is malformed
Digits == {"0", "1", "2", "3", "4", "5", "6", "7", "8", "9"}

RECURSIVE skipWs(_, _)
skipWs(s, i) == IF i <= Len(s) /\ s[i] = " " THEN skipWs(s, i + 1) ELSE i

RECURSIVE digitsEnd(_, _)
digitsEnd(s, i) == IF i <= Len(s) /\ s[i] \in Digits THEN digitsEnd(s, i + 1) ELSE i

at(s, i, c) == i >= 1 /\ i <= Len(s) /\ s[i] = c

\* a string body from position i, up to and over the closing quote
RECURSIVE stringEnd(_, _)
stringEnd(s, i) ==
    IF i > Len(s) THEN 0
    ELSE IF s[i] = "\"" THEN i + 1
    ELSE IF s[i] = "\\" THEN (IF i + 1 > Len(s) THEN 0 ELSE stringEnd(s, i + 2))
    ELSE stringEnd(s, i + 1)

\* a number: -? digits (. digits)?
numberEnd(s, i) ==
    LET j == IF at(s, i, "-") THEN i + 1 ELSE i
        k == digitsEnd(s, j)
    IN  IF k = j THEN 0
        ELSE IF at(s, k, ".")
        THEN (LET m == digitsEnd(s, k + 1) IN IF m = k + 1 THEN 0 ELSE m)
        ELSE k

startsAt(s, i, word) == i + Len(word) - 1 <= Len(s) /\ SubSeq(s, i, i + Len(word) - 1) = word

Malformed == [next |-> 0, kind |-> "none"]

RECURSIVE parseValue(_, _)
RECURSIVE parseElements(_, _)
RECURSIVE parseMembers(_, _)

\* one JSON value from position i: where it ends and its JSON type
parseValue(s, i) ==
    LET j == skipWs(s, i) IN
    IF j > Len(s) THEN Malformed
    ELSE IF s[j] = "\"" THEN
        (LET e == stringEnd(s, j + 1) IN
         IF e = 0 THEN Malformed ELSE [next |-> e, kind |-> "string"])
    ELSE IF s[j] = "[" THEN
        (LET k == skipWs(s, j + 1)
             e == IF at(s, k, "]") THEN k + 1 ELSE parseElements(s, k)
         IN  IF e = 0 THEN Malformed ELSE [next |-> e, kind |-> "array"])
    ELSE IF s[j] = "{" THEN
        (LET k == skipWs(s, j + 1)
             e == IF at(s, k, "}") THEN k + 1 ELSE parseMembers(s, k)
         IN  IF e = 0 THEN Malformed ELSE [next |-> e, kind |-> "object"])
    ELSE IF startsAt(s, j, <<"t","r","u","e">>) THEN [next |-> j + 4, kind |-> "boolean"]
    ELSE IF startsAt(s, j, <<"f","a","l","s","e">>) THEN [next |-> j + 5, kind |-> "boolean"]
    ELSE IF startsAt(s, j, <<"n","u","l","l">>) THEN [next |-> j + 4, kind |-> "null"]
    ELSE (LET e == numberEnd(s, j) IN
          IF e = 0 THEN Malformed ELSE [next |-> e, kind |-> "number"])

\* the elements of an array from position i, over the closing bracket
parseElements(s, i) ==
    LET v == parseValue(s, i) IN
    IF v.next = 0 THEN 0
    ELSE LET k == skipWs(s, v.next) IN
         IF at(s, k, ",") THEN parseElements(s, k + 1)
         ELSE IF at(s, k, "]") THEN k + 1
         ELSE 0

\* the members of an object from position i, over the closing brace
parseMembers(s, i) ==
    LET j == skipWs(s, i) IN
    IF ~at(s, j, "\"") THEN 0
    ELSE LET e == stringEnd(s, j + 1)
             c == skipWs(s, e)
         IN  IF e = 0 \/ ~at(s, c, ":") THEN 0
             ELSE LET v == parseValue(s, c + 1) IN
                  IF v.next = 0 THEN 0
                  ELSE LET k == skipWs(s, v.next) IN
                       IF at(s, k, ",") THEN parseMembers(s, k + 1)
                       ELSE IF at(s, k, "}") THEN k + 1
                       ELSE 0

\* the JSON type of a text that is exactly one well-formed JSON value, "none"
\* for any other text
jsonKind(s) ==
    LET v == parseValue(s, 1) IN
    IF v.next # 0 /\ skipWs(s, v.next) = Len(s) + 1 THEN v.kind ELSE "none"

\* the JSON type a declared kind of field is written as
jsonKindOf(kind) ==
    CASE kind = "string" -> "string"
      [] kind \in {"int", "float64"} -> "number"
      [] kind = "bool" -> "boolean"
      [] kind = "slice" -> "array"
      [] kind \in {"map", "struct"} -> "object"

\* the exported fields of the Spec sub-record of a type, as declared
declaredSpecFields(t) ==
    LET hits == {i \in 1..Len(t.Fields) : t.Fields[i].Name = sSpec}
    IN  IF hits = {} THEN <<>>
        ELSE keptFields(t.Fields[CHOOSE h \in hits : \A g \in hits : h <= g].Fields)

\* C29: for every field list produced by RegisterResource, whatever the
\* declared kinds of the fields, specToJSON returns a well-formed JSON object:
\* each field's value, formed by formatJSONValue from the example value that
\* generateExampleValue gave it, is one well-formed JSON value whose JSON type
\* matches the declared kind.
C29_SpecToJSONWellFormed ==
    \A i \in 1..Len(Resources) :
        LET fields == Resources[i].SpecFields
            declared == declaredSpecFields(registered[i])
        IN  /\ jsonKind(specToJSON(fields)) = "object"
            /\ \A k \in 1..Len(fields) :
                  jsonKind(formatJSONValue(fields[k].Type, chars(fields[k].ExampleValue)))
                      = jsonKindOf(declared[k].Type.Kind)

----------------------------------------------------------------------------
(* Generation pipeline: templates, paths, files *)

\* the logical names of the template catalog
TemplateCatalog ==
    {"handlers", "routes", "models", "openapi", "flatModels", "flatHandlers",
     "client", "clientModels", "clientCmd",
     "storage", "storageEnt", "entAdapter", "generate",
     "entSchemaResource", "entSchemaLabel", "entSchemaAnnotation",
     "middlewareValidation", "middlewareConditional", "middlewareVersioning", "eventBus",
     "reconciler", "reconcilerStub", "reconcilerRegistration", "eventHandlers"}

\* file names
fModels == <<"m","o","d","e","l","s","_","g","e","n","e","r","a","t","e","d",".","g","o">>
fFlatModels == <<"f","l","a","t","_","m","o","d","e","l","s","_","g","e","n","e","r","a","t","e","d",".","g","o">>
fHandlers == <<"_","h","a","n","d","l","e","r","s","_","g","e","n","e","r","a","t","e","d",".","g","o">>
fFlatHandlers == <<"_","f","l","a","t","_","h","a","n","d","l","e","r","s","_","g","e","n","e","r","a","t","e","d",".","g","o">>
fRoutes == <<"r","o","u","t","e","s","_","g","e","n","e","r","a","t","e","d",".","g","o">>
fStorage == <<"s","t","o","r","a","g","e","_","g","e","n","e","r","a","t","e","d",".","g","o">>
fOpenAPI == <<"o","p","e","n","a","p","i","_","g","e","n","e","r","a","t","e","d",".","g","o">>
fValidation == <<"v","a","l","i","d","a","t","i","o","n","_","m","i","d","d","l","e","w","a","r","e","_","g","e","n","e","r","a","t","e","d",".","g","o">>
fConditional == <<"c","o","n","d","i","t","i","o","n","a","l","_","m","i","d","d","l","e","w","a","r","e","_","g","e","n","e","r","a","t","e","d",".","g","o">>
fVersioning == <<"v","e","r","s","i","o","n","i","n","g","_","m","i","d","d","l","e","w","a","r","e","_","g","e","n","e","r","a","t","e","d",".","g","o">>
fEventBus == <<"e","v","e","n","t","_","b","u","s","_","g","e","n","e","r","a","t","e","d",".","g","o">>
\* the client library written as client.go
fClient_NoInfix == <<"c","l","i","e","n","t",".","g","o">>
fClient == <<"c","l","i","e","n","t","_","g","e","n","e","r","a","t","e","d",".","g","o">>
fReconcilerGenerated == <<"_","r","e","c","o","n","c","i","l","e","r","_","g","e","n","e","r","a","t","e","d",".","g","o">>
fReconcilerStub == <<"_","r","e","c","o","n","c","i","l","e","r",".","g","o">>
fRegistration == <<"r","e","g","i","s","t","r","a","t","i","o","n","_","g","e","n","e","r","a","t","e","d",".","g","o">>
fEventHandlers == <<"e","v","e","n","t","_","h","a","n","d","l","e","r","s","_","g","e","n","e","r","a","t","e","d",".","g","o">>
fEntResource == <<"r","e","s","o","u","r","c","e",".","g","o">>
fEntLabel == <<"l","a","b","e","l",".","g","o">>
fEntAnnotation == <<"a","n","n","o","t","a","t","i","o","n",".","g","o">>
fEntAdapter == <<"e","n","t","_","a","d","a","p","t","e","r",".","g","o">>
fGenerate == <<"g","e","n","e","r","a","t","e",".","g","o">>
fMain == <<"m","a","i","n",".","g","o">>
sGoExt == <<".","g","o">>

\* the directories the stages name
\* the storage file put under the output directory "out"
storageDir_UnderOutputDir == "out"

storageDir == "internal/storage"
middlewareDir == "internal/middleware"
schemaDir == "internal/storage/ent/schema"
cliDir == "cmd/client"

\* a path: filepath.Join(dir, name)
Join(dir, name) == <<dir, name>>

\* the directories os.MkdirAll(dir) makes sure exist
MkdirAll(dir) ==
    CASE dir = "internal/storage" -> {"internal", "internal/storage"}
      [] dir = "internal/middleware" -> {"internal", "internal/middleware"}
      [] dir = "internal/storage/ent/schema" ->
            {"internal", "internal/storage", "internal/storage/ent",
             "internal/storage/ent/schema"}
      [] dir = "cmd/client" -> {"cmd", "cmd/client"}
      [] OTHER -> {dir}

\* strings.HasSuffix, for filepath.Ext(outputPath) == ".go"
HasSuffix(s, suffix) ==
    Len(s) >= Len(suffix) /\ SubSeq(s, Len(s) - Len(suffix) + 1, Len(s)) = suffix

\* what a template renders: it depends on the template, on the resource it is
\* given (0: the whole registry) and, through GeneratedAt, on the run
Rendered(tmpl, res) == [tmpl |-> tmpl, res |-> res, run |-> run]

\* a file a failed write left empty or partial
Truncated == [tmpl |-> "truncated", res |-> 0, run |-> 0]

\* a file the user wrote
UserContent == [tmpl |-> "user", res |-> 0, run |-> 0]

\* os.WriteFile succeeding
WriteFile(files, path, content) ==
    [p \in DOMAIN files \cup {path} |-> IF p = path THEN content ELSE files[p]]

\* the events of the trace
EnterEvent(stage) == [ev |-> "enter", stage |-> stage, tmpl |-> "", res |-> 0]
ExecEvent(stage, tmpl, res) == [ev |-> "exec", stage |-> stage, tmpl |-> tmpl, res |-> res]
FailEvent(stage, tmpl, res) == [ev |-> "fail", stage |-> stage, tmpl |-> tmpl, res |-> res]

\* how one emission (Execute, format.Source, MkdirAll, os.WriteFile) can end:
\* well, or with the failure of one of its calls; a failed os.WriteFile fails
\* either opening the file ("open": the file is as before) or writing it
\* ("write": the file is left empty or partial)
EmitOutcomes == {"ok", "execute", "format", "open", "write"}
EmitMkdirOutcomes == EmitOutcomes \cup {"mkdir"}
MkdirOutcomes == {"ok", "mkdir"}

errorKind(outcome) ==
    CASE outcome = "execute" -> "template-execute"
      [] outcome = "format" -> "source-format"
      [] outcome = "notfound" -> "template-execute"
      [] OTHER -> "filesystem"

\* one emission of a stage: Templates[tmpl].Execute, format.Source on a .go
\* path, MkdirAll(mkdir) when the stage makes its directory here, os.WriteFile.
\* Gives the events, the files and directories it leaves, and whether it failed.
emit(stage, tmpl, res, path, mkdir, outcome) ==
    LET formats == HasSuffix(path[2], sGoExt)
        o1 == IF outcome = "format" /\ ~formats THEN "ok" ELSE outcome
        made == IF mkdir # "" /\ o1 \in {"ok", "open", "write"}
                THEN dirs \cup MkdirAll(mkdir) ELSE dirs
        o2 == IF o1 \in {"ok", "write"} /\ path[1] \notin made THEN "open" ELSE o1
    IN  [events |-> IF o2 = "ok"
                    THEN <<ExecEvent(stage, tmpl, res)>>
                    ELSE <<ExecEvent(stage, tmpl, res), FailEvent(stage, tmpl, res)>>,
         fs |-> CASE o2 = "ok" -> WriteFile(fs, path, Rendered(tmpl, res))
                  [] o2 = "write" -> WriteFile(fs, path, Truncated)
                  [] OTHER -> fs,
         dirs |-> made,
         failed |-> o2 # "ok",
         kind |-> errorKind(o2)]

\* os.MkdirAll as a statement of its own
mkdirAll(stage, dir, outcome) ==
    [events |-> IF outcome = "ok" THEN <<>> ELSE <<FailEvent(stage, "", 0)>>,
     fs |-> fs,
     dirs |-> IF outcome = "ok" THEN dirs \cup MkdirAll(dir) ELSE dirs,
     failed |-> outcome # "ok",
     kind |-> "filesystem"]

\* a statement that does nothing (a disabled middleware, an existing stub)
skip == [events |-> <<>>, fs |-> fs, dirs |-> dirs, failed |-> FALSE, kind |-> ""]

----------------------------------------------------------------------------
(* Generation pipeline: control *)

Ctl(p, i, s, c) == [pc |-> p, idx |-> i, step |-> s, caller |-> c]

DoneCtl == Ctl("done", 0, 0, "")

\* a stage function called by GenerateAll, at its first statement
enter(stage) == Ctl(stage, 1, 1, "GenerateAll")

\* the switch of GenerateAll with the server sub-pipeline as its default case
dispatch_DefaultsToMain(packageName, storageType) ==
    CASE packageName = "client" -> "GenerateClient"
      [] packageName = "reconcile" -> "GenerateReconcilers"
      [] OTHER -> IF storageType = "ent" THEN "GenerateEntSchemas" ELSE "GenerateModels"

\* the switch of GenerateAll with the reconcile stages under case "client"
dispatch_ClientRunsReconcile(packageName, storageType) ==
    CASE packageName = "main" ->
            IF storageType = "ent" THEN "GenerateEntSchemas" ELSE "GenerateModels"
      [] packageName = "client" -> "GenerateReconcilers"
      [] packageName = "reconcile" -> "GenerateReconcilers"
      [] OTHER -> "unsupported"

\* the switch of GenerateAll: the first stage of the sub-pipeline of the selector
dispatch(packageName, storageType) ==
    CASE packageName = "main" ->
            IF storageType = "ent" THEN "GenerateEntSchemas" ELSE "GenerateModels"
      [] packageName = "client" -> "GenerateClient"
      [] packageName = "reconcile" -> "GenerateReconcilers"
      [] OTHER -> "unsupported"

\* the sequence of GenerateAll with the routes generated before the middleware
afterStage_RoutesBeforeMiddleware(stage) ==
    CASE stage = "GenerateEntSchemas" -> "GenerateEntAdapter"
      [] stage = "GenerateEntAdapter" -> "GenerateModels"
      [] stage = "GenerateModels" -> "GenerateHandlers"
      [] stage = "GenerateHandlers" -> "GenerateFlatHandlers"
      [] stage = "GenerateFlatHandlers" -> "GenerateRoutes"
      [] stage = "GenerateRoutes" -> "GenerateMiddleware"
      [] stage = "GenerateMiddleware" -> "GenerateStorage"
      [] stage = "GenerateStorage" -> "GenerateOpenAPI"
      [] stage = "GenerateOpenAPI" -> "done"
      [] stage = "GenerateClient" -> "GenerateClientModels"
      [] stage = "GenerateClientModels" -> "done"
      [] stage = "GenerateReconcilers" -> "GenerateReconcilerRegistration"
      [] stage = "GenerateReconcilerRegistration" -> "GenerateEventHandlers"
      [] stage = "GenerateEventHandlers" -> "done"

\* the sequence of GenerateAll: the stage it calls when a stage has returned nil
afterStage(stage) ==
    CASE stage = "GenerateEntSchemas" -> "GenerateEntAdapter"
      [] stage = "GenerateEntAdapter" -> "GenerateModels"
      [] stage = "GenerateModels" -> "GenerateHandlers"
      [] stage = "GenerateHandlers" -> "GenerateFlatHandlers"
      [] stage = "GenerateFlatHandlers" -> "GenerateMiddleware"
      [] stage = "GenerateMiddleware" -> "GenerateRoutes"
      [] stage = "GenerateRoutes" -> "GenerateStorage"
      [] stage = "GenerateStorage" -> "GenerateOpenAPI"
      [] stage = "GenerateOpenAPI" -> "done"
      [] stage = "GenerateClient" -> "GenerateClientModels"
      [] stage = "GenerateClientModels" -> "done"
      [] stage = "GenerateReconcilers" -> "GenerateReconcilerRegistration"
      [] stage = "GenerateReconcilerRegistration" -> "GenerateEventHandlers"
      [] stage = "GenerateEventHandlers" -> "done"

\* where control goes, and what is entered, when GenerateAll calls `next`
call(next) ==
    IF next = "done"
    THEN [ctl |-> DoneCtl, events |-> <<>>]
    ELSE [ctl |-> enter(next), events |-> <<EnterEvent(next)>>]

\* a stage function returns nil to GenerateAll
return(stage) == call(afterStage(stage))

\* to the next statement of the same stage function
goto(i, s) == [ctl |-> Ctl(pc, i, s, caller), events |-> <<>>]

\* `if err != nil { return err }`: where control goes after a statement
control(failed, cont) == IF failed THEN DoneCtl ELSE cont.ctl

\* a statement of a stage that also sets the storage kind back to its default
Step_ResetsStorageType(stage, r, cont) ==
    LET c == control(r.failed, cont) IN
    /\ trace' = IF r.failed THEN trace \o r.events ELSE trace \o r.events \o cont.events
    /\ fs' = r.fs
    /\ dirs' = r.dirs
    /\ pc' = c.pc
    /\ idx' = c.idx
    /\ step' = c.step
    /\ caller' = c.caller
    /\ err' = IF r.failed THEN [kind |-> r.kind, stage |-> stage] ELSE NoError
    /\ StorageType' = "file"
    /\ UNCHANGED <<regVars, PackageName, Config, OutputDir, DBDriver, ModulePath, Templates, run>>

\* the state after a statement with result r of a stage, continuing at cont
Step(stage, r, cont) ==
    LET c == control(r.failed, cont) IN
    /\ trace' = IF r.failed THEN trace \o r.events ELSE trace \o r.events \o cont.events
    /\ fs' = r.fs
    /\ dirs' = r.dirs
    /\ pc' = c.pc
    /\ idx' = c.idx
    /\ step' = c.step
    /\ caller' = c.caller
    /\ err' = IF r.failed THEN [kind |-> r.kind, stage |-> stage] ELSE NoError
    /\ UNCHANGED <<regVars, cfgVars, Templates, run>>


----------------------------------------------------------------------------
(* Generation pipeline: GenerateAll and its stages *)

\* GenerateAll is called; it calls LoadTemplates first
GenerateAll(maxRuns) ==
    /\ pc \in {"idle", "done"}
    /\ run < maxRuns
    /\ run' = run + 1
    /\ pc' = "LoadTemplates"
    /\ idx' = 0
    /\ step' = 0
    /\ caller' = "GenerateAll"
    /\ err' = NoError
    /\ trace' = <<>>
    /\ UNCHANGED <<regVars, cfgVars, Templates, fs, dirs>>

\* the templates a failed LoadTemplates leaves in the map: those it parsed
\* before the one that failed (the catalog is walked in no fixed order)
loadedBeforeFailure == {{}} \cup {TemplateCatalog \ {f} : f \in TemplateCatalog}

\* LoadTemplates, and the switch of GenerateAll on its success
LoadTemplates ==
    /\ pc = "LoadTemplates"
    /\ \/ \* every template is read and parsed
          /\ Templates' = TemplateCatalog
          /\ LET first == dispatch(PackageName, StorageType) IN
             IF first = "unsupported"
             THEN /\ pc' = "done"
                  /\ idx' = 0
                  /\ step' = 0
                  /\ caller' = ""
                  /\ err' = [kind |-> "unsupported-selector", stage |-> "GenerateAll"]
                  /\ trace' = trace
             ELSE /\ pc' = call(first).ctl.pc
                  /\ idx' = call(first).ctl.idx
                  /\ step' = call(first).ctl.step
                  /\ caller' = call(first).ctl.caller
                  /\ err' = NoError
                  /\ trace' = trace \o call(first).events
       \/ \* a template is missing from the embedded assets or does not parse
          /\ Templates' \in loadedBeforeFailure
          /\ pc' = "done"
          /\ idx' = 0
          /\ step' = 0
          /\ caller' = ""
          /\ err' = [kind |-> "template-load", stage |-> "LoadTemplates"]
          /\ trace' = trace
    /\ UNCHANGED <<regVars, cfgVars, run, fs, dirs>>

\* executeTemplate(templateName, outputPath, nil)
executeTemplate(stage, templateName, outputPath, outcome) ==
    IF templateName \notin Templates
    THEN [events |-> <<FailEvent(stage, templateName, 0)>>, fs |-> fs, dirs |-> dirs,
          failed |-> TRUE, kind |-> errorKind("notfound")]
    ELSE emit(stage, templateName, 0, outputPath, "", outcome)

GenerateEntSchemas ==
    /\ pc = "GenerateEntSchemas"
    /\ IF StorageType # "ent"
       THEN Step(pc, skip, return(pc))
       ELSE CASE step = 1 ->
                    \E o \in MkdirOutcomes : Step(pc, mkdirAll(pc, schemaDir, o), goto(idx, 2))
              [] step = 2 ->
                    \E o \in EmitOutcomes :
                        Step(pc, executeTemplate(pc, "entSchemaResource",
                                                 Join(schemaDir, fEntResource), o), goto(idx, 3))
              [] step = 3 ->
                    \E o \in EmitOutcomes :
                        Step(pc, executeTemplate(pc, "entSchemaLabel",
                                                 Join(schemaDir, fEntLabel), o), goto(idx, 4))
              [] step = 4 ->
                    \E o \in EmitOutcomes :
                        Step(pc, executeTemplate(pc, "entSchemaAnnotation",
                                                 Join(schemaDir, fEntAnnotation), o), return(pc))

GenerateEntAdapter ==
    /\ pc = "GenerateEntAdapter"
    /\ IF StorageType # "ent"
       THEN Step(pc, skip, return(pc))
       ELSE CASE step = 1 ->
                    \E o \in EmitOutcomes :
                        Step(pc, emit(pc, "entAdapter", 0, Join(storageDir, fEntAdapter), "", o),
                             goto(idx, 2))
              [] step = 2 ->
                    \E o \in EmitOutcomes :
                        Step(pc, executeTemplate(pc, "generate", Join(storageDir, fGenerate), o),
                             return(pc))

GenerateModels ==
    /\ pc = "GenerateModels"
    /\ CASE step = 1 ->
                \E o \in EmitOutcomes :
                    Step(pc, emit(pc, "models", 0, Join(OutputDir, fModels), "", o), goto(idx, 2))
         [] step = 2 ->
                \E o \in EmitOutcomes :
                    Step(pc, emit(pc, "flatModels", 0, Join(OutputDir, fFlatModels), "", o),
                         return(pc))

\* the file of a resource: <lowercase(name)><suffix> in OutputDir
resourceFile(resource, suffix) == Join(OutputDir, ToLower(resource.Name) \o suffix)

\* GenerateHandlers ends by calling GenerateFlatHandlers
tailCallFlatHandlers ==
    [ctl |-> Ctl("GenerateFlatHandlers", 1, 1, "GenerateHandlers"),
     events |-> <<EnterEvent("GenerateFlatHandlers")>>]

GenerateHandlers ==
    /\ pc = "GenerateHandlers"
    /\ IF idx <= Len(Resources)
       THEN \E o \in EmitOutcomes :
                Step(pc, emit(pc, "handlers", idx, resourceFile(Resources[idx], fHandlers), "", o),
                     goto(idx + 1, step))
       ELSE Step(pc, skip, tailCallFlatHandlers)

\* GenerateFlatHandlers returns nil: to GenerateAll, or to GenerateHandlers,
\* which returns that nil to GenerateAll
returnFlatHandlers ==
    IF caller = "GenerateHandlers" THEN return("GenerateHandlers")
    ELSE return("GenerateFlatHandlers")

GenerateFlatHandlers ==
    /\ pc = "GenerateFlatHandlers"
    /\ IF idx <= Len(Resources)
       THEN \E o \in EmitOutcomes :
                Step(pc, emit(pc, "flatHandlers", idx,
                              resourceFile(Resources[idx], fFlatHandlers), "", o),
                     goto(idx + 1, step))
       ELSE Step(pc, skip, returnFlatHandlers)

\* generateMiddlewareFile called whatever the flag
middlewareFile_Always(enabled, templateName, filename, outcome) ==
    emit(pc, templateName, 0, Join(middlewareDir, filename), "", outcome)

\* generateMiddlewareFile when the flag is set
middlewareFile(enabled, templateName, filename, outcome) ==
    IF enabled
    THEN emit(pc, templateName, 0, Join(middlewareDir, filename), "", outcome)
    ELSE skip

GenerateMiddleware ==
    /\ pc = "GenerateMiddleware"
    /\ CASE step = 1 ->
                \E o \in MkdirOutcomes : Step(pc, mkdirAll(pc, middlewareDir, o), goto(idx, 2))
         [] step = 2 ->
                \E o \in EmitOutcomes :
                    Step(pc, middlewareFile(Config.ValidationEnabled, "middlewareValidation",
                                            fValidation, o), goto(idx, 3))
         [] step = 3 ->
                \E o \in EmitOutcomes :
                    Step(pc, middlewareFile(Config.ConditionalEnabled, "middlewareConditional",
                                            fConditional, o), goto(idx, 4))
         [] step = 4 ->
                \E o \in EmitOutcomes :
                    Step(pc, middlewareFile(Config.VersioningEnabled, "middlewareVersioning",
                                            fVersioning, o), goto(idx, 5))
         [] step = 5 ->
                \E o \in EmitOutcomes :
                    Step(pc, middlewareFile(Config.EventsEnabled, "eventBus", fEventBus, o),
                         return(pc))

GenerateRoutes ==
    /\ pc = "GenerateRoutes"
    /\ \E o \in EmitOutcomes :
          Step(pc, emit(pc, "routes", 0, Join(OutputDir, fRoutes), "", o), return(pc))

\* the template GenerateStorage executes
storageTemplate(storageType) == IF storageType = "ent" THEN "storageEnt" ELSE "storage"

GenerateStorage ==
    /\ pc = "GenerateStorage"
    /\ \E o \in EmitMkdirOutcomes :
          Step(pc, emit(pc, storageTemplate(StorageType), 0, Join(storageDir, fStorage),
                        storageDir, o), return(pc))

GenerateOpenAPI ==
    /\ pc = "GenerateOpenAPI"
    /\ \E o \in EmitOutcomes :
          Step(pc, emit(pc, "openapi", 0, Join(OutputDir, fOpenAPI), "", o), return(pc))

GenerateClient ==
    /\ pc = "GenerateClient"
    /\ CASE step = 1 ->
                \E o \in MkdirOutcomes : Step(pc, mkdirAll(pc, OutputDir, o), goto(idx, 2))
         [] step = 2 ->
                \E o \in EmitOutcomes :
                    Step(pc, emit(pc, "client", 0, Join(OutputDir, fClient), "", o), return(pc))

GenerateClientModels ==
    /\ pc = "GenerateClientModels"
    /\ \E o \in EmitOutcomes :
          Step(pc, emit(pc, "clientModels", 0, Join(OutputDir, fModels), "", o), return(pc))

\* GenerateClientCmd, which GenerateAll does not call: the command-line
\* generator calls it on a client generator whose GenerateAll has returned nil
GenerateClientCmd ==
    /\ pc = "done"
    /\ err = NoError
    /\ PackageName = "client"
    /\ lastCall.op # "GenerateClientCmd"
    /\ "clientCmd" \in Templates
    /\ \E o \in EmitMkdirOutcomes :
          LET r == emit("GenerateClientCmd", "clientCmd", 0, Join(cliDir, fMain), cliDir, o) IN
          /\ fs' = r.fs
          /\ dirs' = r.dirs
          /\ lastCall' = [NoCall EXCEPT !.op = "GenerateClientCmd",
                                        !.err = IF r.failed THEN r.kind ELSE "nil"]
    /\ UNCHANGED <<Resources, registered, ref, cfgVars, Templates, pc, idx, step, caller,
                   err, run, trace>>

\* the stub written whether or not the path exists
stubMissing_Always(stubFilename) == TRUE

\* os.Stat(stubFilename) reports that the path does not exist
stubMissing(stubFilename) == stubFilename \notin DOMAIN fs

GenerateReconcilers ==
    /\ pc = "GenerateReconcilers"
    /\ IF idx <= Len(Resources)
       THEN CASE step = 1 ->
                    \E o \in EmitOutcomes :
                        Step(pc, emit(pc, "reconciler", idx,
                                      resourceFile(Resources[idx], fReconcilerGenerated), "", o),
                             goto(idx, 2))
              [] step = 2 ->
                    \E o \in EmitOutcomes :
                        Step(pc,
                             IF stubMissing(resourceFile(Resources[idx], fReconcilerStub))
                             THEN emit(pc, "reconcilerStub", idx,
                                       resourceFile(Resources[idx], fReconcilerStub), "", o)
                             ELSE skip,
                             goto(idx + 1, 1))
       ELSE Step(pc, skip, return(pc))

GenerateReconcilerRegistration ==
    /\ pc = "GenerateReconcilerRegistration"
    /\ \E o \in EmitOutcomes :
          Step(pc, emit(pc, "reconcilerRegistration", 0, Join(OutputDir, fRegistration), "", o),
               return(pc))

GenerateEventHandlers ==
    /\ pc = "GenerateEventHandlers"
    /\ \E o \in EmitOutcomes :
          Step(pc, emit(pc, "eventHandlers", 0, Join(OutputDir, fEventHandlers), "", o),
               return(pc))

\* between two runs the user edits a reconciler stub
UserEdit ==
    /\ pc = "done"
    /\ \E i \in 1..Len(Resources) :
          LET stub == resourceFile(Resources[i], fReconcilerStub) IN
          /\ stub \in DOMAIN fs
          /\ fs[stub] # UserContent
          /\ fs' = [fs EXCEPT ![stub] = UserContent]
    /\ UNCHANGED <<regVars, cfgVars, Templates, pc, idx, step, caller, err, run, dirs, trace>>

----------------------------------------------------------------------------
(* The generators GenerateAll is called on *)

\* the types registered before a run
GenTypes == {tDevice, tLocation, tDEV}

RECURSIVE registryOf(_)
registryOf(ts) ==
    IF ts = <<>> THEN <<>>
    ELSE RegisterResource(registryOf(SubSeq(ts, 1, Len(ts) - 1)), Last(ts))

typeSeqs == UNION {[1..k -> GenTypes] : k \in 0..MaxResources}

PackageNames == {"main", "client", "reconcile", "worker"}
Configs ==
    [ValidationEnabled : BOOLEAN, ConditionalEnabled : BOOLEAN,
     VersioningEnabled : BOOLEAN, EventsEnabled : BOOLEAN,
     StorageType : {"file"}, DBDriver : {"sqlite"}]
OutputDirs == {"out", "gen"}

\* a generator after NewGenerator, the setters and the registrations, over an
\* empty output tree in which OutputDir may or may not exist yet
Configured(ts, packageName, storageType, config, outputDir, outputDirExists) ==
    /\ Resources = registryOf(ts)
    /\ registered = ts
    /\ lastCall = NoCall
    /\ ref = NoRef
    /\ PackageName = packageName
    /\ StorageType = storageType
    /\ Config = config
    /\ OutputDir = outputDir
    /\ DBDriver = "sqlite"
    /\ ModulePath = "example.com/app"
    /\ Templates = {}
    /\ pc = "idle"
    /\ idx = 0
    /\ step = 0
    /\ caller = ""
    /\ err = NoError
    /\ run = 0
    /\ fs = <<>>
    /\ dirs = IF outputDirExists THEN MkdirAll(outputDir) ELSE {}
    /\ trace = <<>>

InitGen ==
    \E ts \in typeSeqs, p \in PackageNames, st \in StorageTypes, c \in Configs,
       od \in OutputDirs, e \in BOOLEAN :
        Configured(ts, p, st, c, od, e)

NextGen ==
    \/ GenerateAll(1)
    \/ LoadTemplates
    \/ GenerateEntSchemas
    \/ GenerateEntAdapter
    \/ GenerateModels
    \/ GenerateHandlers
    \/ GenerateFlatHandlers
    \/ GenerateMiddleware
    \/ GenerateRoutes
    \/ GenerateStorage
    \/ GenerateOpenAPI
    \/ GenerateClient
    \/ GenerateClientModels
    \/ GenerateReconcilers
    \/ GenerateReconcilerRegistration
    \/ GenerateEventHandlers
    \/ GenerateClientCmd

\* one GenerateAll run of any configured generator, and GenerateClientCmd after
\* the run of a client generator
SpecGen == InitGen /\ [][NextGen]_vars

InitRerun ==
    \E ts \in typeSeqs, e \in BOOLEAN :
        Configured(ts, "reconcile", "file", DefaultConfig, "out", e)

NextRerun ==
    \/ GenerateAll(MaxRuns)
    \/ LoadTemplates
    \/ GenerateReconcilers
    \/ GenerateReconcilerRegistration
    \/ GenerateEventHandlers
    \/ UserEdit

\* consecutive reconcile runs over one output tree, the user editing in between
SpecRerun == InitRerun /\ [][NextRerun]_vars


----------------------------------------------------------------------------
(* Properties of the generation pipeline *)

\* the run has ended and GenerateAll returned nil
Succeeded == pc = "done" /\ err = NoError

\* the positions of the trace at which the stage function was entered
entries(stage) == {k \in 1..Len(trace) : trace[k].ev = "enter" /\ trace[k].stage = stage}

\* the positions of the trace at which the template was executed for the resource
executions(tmpl, res) ==
    {k \in 1..Len(trace) : trace[k].ev = "exec" /\ trace[k].tmpl = tmpl /\ trace[k].res = res}

\* the stages of the server sub-pipeline, in the order of the specification
mainOrder ==
    <<"GenerateEntSchemas", "GenerateEntAdapter", "GenerateModels", "GenerateHandlers",
      "GenerateFlatHandlers", "GenerateMiddleware", "GenerateRoutes", "GenerateStorage",
      "GenerateOpenAPI">>

entStages == {"GenerateEntSchemas", "GenerateEntAdapter"}

mainStages(storageType) ==
    {mainOrder[k] : k \in 1..Len(mainOrder)} \ (IF storageType = "ent" THEN {} ELSE entStages)

rank(stage) == CHOOSE k \in 1..Len(mainOrder) : mainOrder[k] = stage

\* C4: in one GenerateAll run with selector main every stage runs exactly once:
\* the flat-handlers template is executed exactly once for each registered
\* resource, and so is the nested-handlers template.
C4_EveryStageRunsOnce ==
    (Succeeded /\ PackageName = "main") =>
        /\ \A s \in mainStages(StorageType) : Cardinality(entries(s)) = 1
        /\ \A i \in 1..Len(Resources) :
              /\ Cardinality(executions("handlers", i)) = 1
              /\ Cardinality(executions("flatHandlers", i)) = 1

\* C5: a GenerateAll run with selector main runs its stages in the order
\* Ent schema set, Ent adapter (these two iff the storage kind is ent), Models
\* (standard then flat), Nested handlers, Flat handlers, Middleware, Routes,
\* Storage, OpenAPI; no stage starts before the previous one has finished; the
\* storage stage uses the ent storage template iff the storage kind is ent.
C5_MainStagesInOrder ==
    PackageName = "main" =>
        /\ \A k \in 1..Len(trace) : trace[k].stage \in mainStages(StorageType)
        /\ \A a, b \in 1..Len(trace) :
              a < b => /\ rank(trace[a].stage) <= rank(trace[b].stage)
                       /\ ~(trace[a].tmpl = "flatModels" /\ trace[b].tmpl = "models")
        /\ \A k \in 1..Len(trace) :
              /\ trace[k].tmpl = "storageEnt" => StorageType = "ent"
              /\ trace[k].tmpl = "storage" => StorageType # "ent"
              /\ trace[k].tmpl \in {"storage", "storageEnt"} => trace[k].stage = "GenerateStorage"
              /\ trace[k].tmpl \in {"models", "flatModels"} => trace[k].stage = "GenerateModels"
              /\ trace[k].tmpl = "handlers" => trace[k].stage = "GenerateHandlers"
              /\ trace[k].tmpl = "flatHandlers" => trace[k].stage = "GenerateFlatHandlers"
              /\ trace[k].tmpl = "routes" => trace[k].stage = "GenerateRoutes"
              /\ trace[k].tmpl = "openapi" => trace[k].stage = "GenerateOpenAPI"
        /\ Succeeded =>
              /\ \A s \in mainStages(StorageType) : entries(s) # {}
              /\ executions("models", 0) # {} /\ executions("flatModels", 0) # {}
              /\ executions("routes", 0) # {} /\ executions("openapi", 0) # {}
              /\ executions(IF StorageType = "ent" THEN "storageEnt" ELSE "storage", 0) # {}

\* a successful server run with ent storage over two resources
C5_Witness ==
    /\ Succeeded
    /\ PackageName = "main"
    /\ StorageType = "ent"
    /\ Len(Resources) = 2
    /\ entries("GenerateEntSchemas") # {}
    /\ executions("storageEnt", 0) # {}

\* C6: GenerateAll fails at pipeline start, before any template is executed and
\* before any file or directory is written, both when the selector is none of
\* main, client, reconcile and when loading the template catalog fails; no
\* stage runs unless LoadTemplates has succeeded in that run.
C6_FailsAtPipelineStart ==
    /\ (pc = "done" /\ PackageName \notin {"main", "client", "reconcile"})
          => err.kind \in {"unsupported-selector", "template-load"}
    /\ (pc = "done" /\ Templates # TemplateCatalog) => err.kind = "template-load"
    /\ err.kind \in {"unsupported-selector", "template-load"}
          => /\ pc = "done"
             /\ trace = <<>>
             /\ fs = <<>>
             /\ dirs \subseteq MkdirAll(OutputDir)
    /\ trace # <<>> => Templates = TemplateCatalog

\* GenerateAll with PackageName "worker" has failed
C6_Witness ==
    /\ pc = "done"
    /\ PackageName = "worker"
    /\ err.kind = "unsupported-selector"
    /\ Len(Resources) = 2
    /\ Templates = TemplateCatalog

stubOf(i) == resourceFile(Resources[i], fReconcilerStub)

companionOf(i) == resourceFile(Resources[i], fReconcilerGenerated)

\* C7: the stub file <lowercase(name)>_reconciler.go is written only when that
\* path does not exist, so across consecutive runs its content (user edits
\* included) is that of the first write; the companion
\* <lowercase(name)>_reconciler_generated.go is overwritten on every run.
C7_StubOnce ==
    [][\A i \in 1..Len(Resources) :
          /\ (pc \notin {"idle", "done"} /\ stubOf(i) \in DOMAIN fs)
                => (stubOf(i) \in DOMAIN fs' /\ fs'[stubOf(i)] = fs[stubOf(i)])
          /\ (pc' = "done" /\ err' = NoError)
                => /\ stubOf(i) \in DOMAIN fs'
                   /\ companionOf(i) \in DOMAIN fs'
                   /\ fs'[companionOf(i)].tmpl = "reconciler"
                   /\ fs'[companionOf(i)].run = run'
                   /\ fs'[stubOf(i)].run <= run'
    ]_vars

\* after the second run: one stub as the user edited it, the other as the first
\* run wrote it, both companions as the second run wrote them
C7_Witness ==
    /\ Succeeded
    /\ run = 2
    /\ Len(Resources) = 2
    /\ stubOf(1) # stubOf(2)
    /\ fs[stubOf(1)] = UserContent
    /\ fs[stubOf(2)] = [tmpl |-> "reconcilerStub", res |-> 2, run |-> 1]
    /\ fs[companionOf(1)].run = 2
    /\ fs[companionOf(2)].run = 2

\* the trace holds a failure
Failed(t) == \E k \in 1..Len(t) : t[k].ev = "fail"

\* what does hold when a stage fails: the run ends there with an error, and
\* only the path of the failing write changes, to a partial file
FailureAbortsPipeline ==
    [][Failed(trace') =>
          /\ pc' = "done"
          /\ err' # NoError
          /\ trace'[Len(trace')].ev = "fail"
          /\ Cardinality({k \in 1..Len(trace') : trace'[k].ev = "fail"}) = 1
          /\ \A p \in DOMAIN fs :
                /\ p \in DOMAIN fs'
                /\ fs'[p] # fs[p] => fs'[p] = Truncated
          /\ Cardinality({p \in DOMAIN fs' : p \notin DOMAIN fs \/ fs'[p] # fs[p]}) <= 1
    ]_vars

\* C8: when a stage of GenerateAll fails (template execute, format,
\* directory-create or file-write), GenerateAll returns an error and no later
\* stage and no later resource of the failing stage is run; the files written
\* before the failure stay as written and there is no retry.
C8_FailureKeepsWrittenFiles ==
    [][Failed(trace') =>
          /\ pc' = "done"
          /\ err' # NoError
          /\ trace'[Len(trace')].ev = "fail"
          /\ Cardinality({k \in 1..Len(trace') : trace'[k].ev = "fail"}) = 1
          /\ \A p \in DOMAIN fs : p \in DOMAIN fs' /\ fs'[p] = fs[p]
    ]_vars

\* the files of the registered resources with that suffix
perResource(suffix) ==
    {<<OutputDir, ToLower(Resources[i].Name) \o suffix>> : i \in 1..Len(Resources)}

\* the middleware file of each configuration flag
middlewareFlags ==
    {<<Config.ValidationEnabled, fValidation>>, <<Config.ConditionalEnabled, fConditional>>,
     <<Config.VersioningEnabled, fVersioning>>, <<Config.EventsEnabled, fEventBus>>}

\* C17: after a successful GenerateAll with selector main and storage file on
\* an empty output tree, the files that exist are exactly: models_generated.go,
\* flat_models_generated.go, routes_generated.go and openapi_generated.go in
\* OutputDir, one <res>_handlers_generated.go and one
\* <res>_flat_handlers_generated.go in OutputDir per registered resource,
\* storage_generated.go under internal/storage whatever OutputDir is, and one
\* middleware file per enabled flag.
C17_MainFileSet ==
    (Succeeded /\ PackageName = "main" /\ StorageType = "file") =>
        DOMAIN fs =
            {<<OutputDir, f>> : f \in {fModels, fFlatModels, fRoutes, fOpenAPI}}
            \cup perResource(fHandlers) \cup perResource(fFlatHandlers)
            \cup {<<"internal/storage", fStorage>>}
            \cup {<<"internal/middleware", m[2]>> : m \in {x \in middlewareFlags : x[1]}}

\* a successful server run into gen, over two resources, with the event bus and
\* without the validation middleware
C17_Witness ==
    /\ Succeeded
    /\ PackageName = "main"
    /\ StorageType = "file"
    /\ OutputDir = "gen"
    /\ Len(Resources) = 2
    /\ Cardinality(perResource(fHandlers)) = 2
    /\ Config.EventsEnabled
    /\ ~Config.ValidationEnabled
    /\ <<"internal/storage", fStorage>> \in DOMAIN fs

sMiddlewareGenerated ==
    <<"_","m","i","d","d","l","e","w","a","r","e","_","g","e","n","e","r","a","t","e","d",".","g","o">>

\* the middleware stage writes the file of a template iff its flag is enabled
middlewareByFlag ==
    /\ \A p \in DOMAIN fs :
          p[1] = "internal/middleware" => \E m \in middlewareFlags : m[1] /\ m[2] = p[2]
    /\ (Succeeded /\ PackageName = "main") =>
          \A m \in middlewareFlags : m[1] => <<"internal/middleware", m[2]>> \in DOMAIN fs

\* C18 as stated: the middleware stage writes the file of each of the four
\* conditional templates iff its configuration flag is enabled, and every file
\* it writes has the path internal/middleware/<name>_middleware_generated.go.
C18_MiddlewareFileNames ==
    /\ middlewareByFlag
    /\ \A p \in DOMAIN fs :
          p[1] = "internal/middleware" =>
              /\ HasSuffix(p[2], sMiddlewareGenerated)
              /\ Len(p[2]) > Len(sMiddlewareGenerated)

\* C18, amended: the middleware stage writes the file of each of the four
\* conditional templates iff its configuration flag is enabled; the files are
\* internal/middleware/<name>_middleware_generated.go for validation,
\* conditional and versioning, and internal/middleware/event_bus_generated.go
\* for the event bus.
C18_MiddlewareFilesByFlag ==
    /\ middlewareByFlag
    /\ \A p \in DOMAIN fs :
          p[1] = "internal/middleware" =>
              \/ p[2] = <<"v","a","l","i","d","a","t","i","o","n">> \o sMiddlewareGenerated
              \/ p[2] = <<"c","o","n","d","i","t","i","o","n","a","l">> \o sMiddlewareGenerated
              \/ p[2] = <<"v","e","r","s","i","o","n","i","n","g">> \o sMiddlewareGenerated
              \/ p[2] = <<"e","v","e","n","t","_","b","u","s","_","g","e","n","e","r","a","t","e","d",".","g","o">>

\* a successful server run with the event bus and versioning on, validation and
\* conditional requests off
C18_Witness ==
    /\ Succeeded
    /\ PackageName = "main"
    /\ Config.EventsEnabled /\ Config.VersioningEnabled
    /\ ~Config.ValidationEnabled /\ ~Config.ConditionalEnabled
    /\ <<"internal/middleware", fEventBus>> \in DOMAIN fs
    /\ <<"internal/middleware", fVersioning>> \in DOMAIN fs
    /\ <<"internal/middleware", fValidation>> \notin DOMAIN fs

sGenerated == <<"_","g","e","n","e","r","a","t","e","d">>

\* the path is the reconciler stub of a registered resource
isStub(p) ==
    /\ PackageName = "reconcile"
    /\ \E i \in 1..Len(Resources) :
          p = <<OutputDir, ToLower(Resources[i].Name)
                              \o <<"_","r","e","c","o","n","c","i","l","e","r",".","g","o">>>>

\* C19 as stated: every file name written by any stage of any sub-pipeline
\* contains the infix _generated, with the reconciler stub as the only
\* exception.
C19_GeneratedInfix ==
    \A p \in DOMAIN fs : Contains(p[2], sGenerated) \/ isStub(p)

\* C19, amended: every file name written contains the infix _generated, except
\* the reconciler stub, the files of the two ent stages (resource.go, label.go
\* and annotation.go under internal/storage/ent/schema, ent_adapter.go and
\* generate.go under internal/storage) and the client CLI's cmd/client/main.go.
C19_GeneratedInfixOrListed ==
    \A p \in DOMAIN fs :
        \/ Contains(p[2], sGenerated)
        \/ isStub(p)
        \/ /\ PackageName = "main" /\ StorageType = "ent"
           /\ p \in {<<"internal/storage/ent/schema", <<"r","e","s","o","u","r","c","e",".","g","o">>>>,
                     <<"internal/storage/ent/schema", <<"l","a","b","e","l",".","g","o">>>>,
                     <<"internal/storage/ent/schema", <<"a","n","n","o","t","a","t","i","o","n",".","g","o">>>>,
                     <<"internal/storage", <<"e","n","t","_","a","d","a","p","t","e","r",".","g","o">>>>,
                     <<"internal/storage", <<"g","e","n","e","r","a","t","e",".","g","o">>>>}
        \/ /\ lastCall.op = "GenerateClientCmd"
           /\ p = <<"cmd/client", <<"m","a","i","n",".","g","o">>>>

\* a successful server run with ent storage has written the five ent files
\* beside files with the infix
C19_Witness ==
    /\ Succeeded
    /\ PackageName = "main"
    /\ StorageType = "ent"
    /\ Len(Resources) = 2
    /\ {<<schemaDir, fEntResource>>, <<schemaDir, fEntLabel>>, <<schemaDir, fEntAnnotation>>,
        <<storageDir, fEntAdapter>>, <<storageDir, fGenerate>>, <<storageDir, fStorage>>}
          \subseteq DOMAIN fs

\* the stages of the client and of the reconcile sub-pipeline, in order
clientOrder == <<"GenerateClient", "GenerateClientModels">>
reconcileOrder ==
    <<"GenerateReconcilers", "GenerateReconcilerRegistration", "GenerateEventHandlers">>

\* the trace runs stages of that list only, in the order of the list, and a
\* successful run has entered each of them once
runsInOrder(order) ==
    LET stages == {order[k] : k \in 1..Len(order)}
        pos(stage) == CHOOSE k \in 1..Len(order) : order[k] = stage
    IN  /\ \A k \in 1..Len(trace) : trace[k].stage \in stages
        /\ \A a, b \in 1..Len(trace) : a < b => pos(trace[a].stage) <= pos(trace[b].stage)
        /\ Succeeded => \A st \in stages : Cardinality(entries(st)) = 1

\* C20: GenerateAll runs only the stages of the sub-pipeline chosen by the
\* selector, in the listed order: for client exactly Client library then
\* Client models; for reconcile exactly Reconcilers (boilerplate then stub,
\* per resource) then Registration then Event handlers; no stage of another
\* sub-pipeline runs.
C20_SelectorStages ==
    /\ PackageName = "client" =>
          /\ runsInOrder(clientOrder)
          /\ Succeeded => /\ Cardinality(executions("client", 0)) = 1
                          /\ Cardinality(executions("clientModels", 0)) = 1
    /\ PackageName = "reconcile" =>
          /\ runsInOrder(reconcileOrder)
          /\ \A a, b \in 1..Len(trace) :
                (a < b /\ trace[a].stage = "GenerateReconcilers"
                       /\ trace[b].stage = "GenerateReconcilers"
                       /\ trace[a].ev = "exec" /\ trace[b].ev = "exec")
                    => \/ trace[a].res < trace[b].res
                       \/ /\ trace[a].res = trace[b].res
                          /\ trace[a].tmpl = "reconciler"
                          /\ trace[b].tmpl = "reconcilerStub"
          /\ Succeeded =>
                /\ \A i \in 1..Len(Resources) : Cardinality(executions("reconciler", i)) = 1
                /\ Cardinality(executions("reconcilerRegistration", 0)) = 1
                /\ Cardinality(executions("eventHandlers", 0)) = 1
    /\ PackageName = "main" =>
          \A k \in 1..Len(trace) : trace[k].stage \in mainStages(StorageType)

\* a successful reconcile run over two resources, both stubs written
C20_Witness ==
    /\ Succeeded
    /\ PackageName = "reconcile"
    /\ Len(Resources) = 2
    /\ executions("reconcilerStub", 1) # {}
    /\ executions("reconcilerStub", 2) # {}
    /\ executions("eventHandlers", 0) # {}

\* C21: each file write is atomic: at every point of a run, including when a
\* write fails partway, a target path holds either what it held before the
\* write (or is absent) or the complete new content, never an empty or partial
\* file.
C21_WritesAreAtomic ==
    [][\A p \in DOMAIN fs' :
          \/ p \in DOMAIN fs /\ fs'[p] = fs[p]
          \/ fs'[p] # Truncated
    ]_vars

\* C22: GenerateAll does not change the registry or the configuration: after
\* any run, successful or failed, Resources, Config, StorageType, DBDriver,
\* OutputDir, PackageName and ModulePath equal their values before the run.
C22_RunLeavesGeneratorUnchanged ==
    [][/\ Resources' = Resources
       /\ Config' = Config
       /\ StorageType' = StorageType
       /\ DBDriver' = DBDriver
       /\ OutputDir' = OutputDir
       /\ PackageName' = PackageName
       /\ ModulePath' = ModulePath
    ]_vars

\* a successful server run with ent storage over two resources: the registry
\* is the one the registrations built
C22_Witness ==
    /\ Succeeded
    /\ PackageName = "main"
    /\ StorageType = "ent"
    /\ Len(Resources) = 2
    /\ Resources = registryOf(registered)
    /\ fs # <<>>

\* the stages that write into OutputDir without making it
writesIntoOutputDir ==
    {"GenerateModels", "GenerateHandlers", "GenerateFlatHandlers", "GenerateRoutes",
     "GenerateOpenAPI", "GenerateReconcilers", "GenerateReconcilerRegistration",
     "GenerateEventHandlers"}

\* C24: before each file write the generator has ensured that the file's
\* parent directory exists, so GenerateAll with selector main or reconcile
\* does not fail with a filesystem error only because OutputDir does not exist
\* when the run starts.
C24_OutputDirEnsured ==
    (/\ PackageName \in {"main", "reconcile"}
     /\ pc = "done"
     /\ err.kind = "filesystem"
     /\ err.stage \in writesIntoOutputDir)
        => OutputDir \in dirs

\* the names of the registered resources are pairwise distinct
distinctNames ==
    \A i, j \in 1..Len(Resources) : i # j => Resources[i].Name # Resources[j].Name

\* C27: in one GenerateAll run no two distinct registered resources write the
\* same output path: the number of <res>_handlers_generated.go files (and of
\* each other per-resource artifact) left by a successful run equals the number
\* of registered resources, and no resource's file is overwritten by another
\* resource's.
C27_OnePathPerResource ==
    (Succeeded /\ distinctNames) =>
        /\ PackageName = "main" =>
              /\ Cardinality(perResource(fHandlers) \cap DOMAIN fs) = Len(Resources)
              /\ Cardinality(perResource(fFlatHandlers) \cap DOMAIN fs) = Len(Resources)
              /\ \A i \in 1..Len(Resources) :
                    fs[resourceFile(Resources[i], fHandlers)].res = i
        /\ PackageName = "reconcile" =>
              /\ Cardinality(perResource(fReconcilerGenerated) \cap DOMAIN fs) = Len(Resources)
              /\ Cardinality(perResource(fReconcilerStub) \cap DOMAIN fs) = Len(Resources)
              /\ \A i \in 1..Len(Resources) :
                    fs[resourceFile(Resources[i], fReconcilerGenerated)].res = i

=============================================================================
